---- MODULE Spec2Model ----
(***************************************************************************)
(* NASA wallpaper scripts for KDE Plasma.                                  *)
(*                                                                         *)
(* Three programs are modelled:                                            *)
(*   Spec         src/apiscript.py, main(): the periodic driver around     *)
(*                KDENASAWallpaper (search, resolve, download, apply,      *)
(*                record), with the history file and the download files.   *)
(*   SpecHistory  KDENASAWallpaper.save_wallpaper_history called over and  *)
(*                over on the history file.                                *)
(*   SpecScripts  the retrying stage functions of src/apiscript.py with    *)
(*                NasaWallpaperPlugin.update_wallpaper, and the one-shot   *)
(*                script src/nasa_wallpaper_updater.py.                    *)
(***************************************************************************)
EXTENDS Integers, Sequences, FiniteSets, TLC

\* ------------------------------------------------------------------ bounds
\* cycles of fetch_and_set_wallpaper the driver is followed through
MaxCycles == 2
\* longest asset manifest the catalog returns
MaxManifest == 2
\* record calls SpecHistory follows (beyond the cap of 50)
MaxRecords == 52
\* of which at most this many fail
MaxSaveFailures == 1

\* ------------------------------------------------------- program constants
\* history = history[-50:]
HistoryCap == 50
\* def search_nasa_images(query, retries=3) and its two siblings
retries == 3

\* ------------------------------------------------------------ input values
NasaIds == {"X123", "Y456"}
None == "None"

\* hrefs of an asset manifest
Hrefs == {"thumb.jpg", "large.PNG", "orig.tif", "metadata.json"}

\* str.lower() on the hrefs
lower(s) ==
    CASE s = "thumb.jpg" -> "thumb.jpg"
      [] s = "large.PNG" -> "large.png"
      [] s = "orig.tif" -> "orig.tif"
      [] s = "metadata.json" -> "metadata.json"
      [] OTHER -> s

\* the text after the last '.', image_url.split('.')[-1]
split_last(s) ==
    CASE s = "thumb.jpg" -> "jpg"
      [] s = "large.PNG" -> "PNG"
      [] s = "large.png" -> "png"
      [] s = "orig.tif" -> "tif"
      [] s = "metadata.json" -> "json"
      [] OTHER -> s

\* s.endswith(('.jpg', '.jpeg', '.png')), on the text as it is (case-sensitive)
endswith_image(s) == split_last(s) \in {"jpg", "jpeg", "png"}

\* str.lower() on an extension
lower_ext(e) == IF e = "PNG" THEN "png" ELSE e

Manifests == UNION {[1..n -> Hrefs] : n \in 0..MaxManifest}

\* a file name nasa_{nasa_id}_{timestamp}.{file_extension} in wallpaper_dir
NoPath == [id |-> None, ts |-> 0, ext |-> ""]

\* the history file: absent, or a JSON list, or text json.load rejects
AbsentFile == [exists |-> FALSE, valid |-> TRUE, data |-> <<>>]
CorruptFile == [exists |-> TRUE, valid |-> FALSE, data |-> <<>>]
JsonFile(d) == [exists |-> TRUE, valid |-> TRUE, data |-> d]

VARIABLES
    pc,             \* where the running program is
    sinkOk,         \* self.plasma_interface was obtained
    scheduled,      \* schedule.every(6).hours.do(...) has run
    cycles,         \* calls of the cycle entry point so far
    clock,          \* datetime.now(), one tick per reading
    historyFile,    \* wallpaper_history.json
    recorded,       \* every entry a completed save_wallpaper_history wrote
    saveFailures,   \* save_wallpaper_history calls that raised and logged
    histBefore,     \* historyFile when the current cycle began
    trace,          \* stages entered in the current cycle, with their outcome
    nasa_id,        \* fetch_and_set_wallpaper / update_wallpaper local
    manifest,       \* hrefs of the manifest the resolve stage received
    image_url,      \* the href selected from the manifest
    tempFile,       \* content of the NamedTemporaryFile: absent/empty/partial/complete
    tempSeen,       \* download_wallpaper created its temporary file in this call
    dlError,        \* the step of download_wallpaper that raised, "" if none
    file_path,      \* download_wallpaper's destination in wallpaper_dir
    wallpaperFiles, \* wallpaper_dir: path -> content (partial/complete)
    wallpaper_path, \* what download_wallpaper returned
    script,         \* SpecScripts: which script runs
    jsonErrCaught,  \* response.json() raises a RequestException subclass
    attempt,        \* the stage functions' loop counter
    attempts,       \* outcomes of the attempts of the current stage call
    stageRet,       \* the current stage call and how it ended: running/value/None/raised
    savePath,       \* content of SAVE_PATH: absent/old/partial/complete
    savePathBefore  \* SAVE_PATH when download_image was called

vars == <<pc, sinkOk, scheduled, cycles, clock, historyFile, recorded, saveFailures,
          histBefore,
          trace, nasa_id, manifest, image_url, tempFile, tempSeen, dlError,
          file_path, wallpaperFiles, wallpaper_path, script, jsonErrCaught,
          attempt, attempts, stageRet, savePath, savePathBefore>>

kdeVars == <<sinkOk, scheduled>>
fileVars == <<tempFile, tempSeen, dlError, file_path, wallpaperFiles, wallpaper_path>>
histVars == <<historyFile, recorded, saveFailures, clock>>
scriptVars == <<script, jsonErrCaught, attempt, attempts, stageRet, savePath,
                savePathBefore>>

Stage(s, ok) == [stage |-> s, ok |-> ok]

\* ------------------------------------------------------------ History Store
IoOutcomes == {"ok", "read_error", "open_error", "dump_error"}

\* history.append({'path': str(image_path), 'date': datetime.now().isoformat()})
append_entry(history, image_path, now) ==
    Append(history, [path |-> image_path, date |-> now])

\* history[:50], the oldest entries kept instead of the newest
keep_first(history) ==
    IF Len(history) <= HistoryCap THEN history ELSE SubSeq(history, 1, HistoryCap)

\* history = history[-50:]
keep_last(history) ==
    IF Len(history) <= HistoryCap
    THEN history
    ELSE SubSeq(history, Len(history) - HistoryCap + 1, Len(history))

\* KDENASAWallpaper.save_wallpaper_history on the file `file`; io names the file
\* operation that raises, if it is reached. The except clause logs and returns,
\* so the caller never sees the failure.
\*   saved: the new list was written out; readNow: datetime.now() was read
save_wallpaper_history(file, image_path, now, io) ==
    IF file.exists /\ (io = "read_error" \/ ~file.valid)
    THEN [file |-> file, saved |-> FALSE, readNow |-> FALSE]
    ELSE LET loaded == IF file.exists THEN file.data ELSE <<>>
             history == keep_last(append_entry(loaded, image_path, now))
         IN  CASE io = "open_error" ->
                    [file |-> file, saved |-> FALSE, readNow |-> TRUE]
               [] io = "dump_error" ->
                    \* open(history_file, 'w') has truncated the file
                    [file |-> CorruptFile, saved |-> FALSE, readNow |-> TRUE]
               [] OTHER ->
                    [file |-> JsonFile(history), saved |-> TRUE, readNow |-> TRUE]

\* the entry a completed save added
saved_entry(image_path, now) == [path |-> image_path, date |-> now]

\* ------------------------------------------- SpecHistory: the store by itself
InitCommon ==
    /\ sinkOk = FALSE
    /\ scheduled = FALSE
    /\ cycles = 0
    /\ clock = 1
    /\ recorded = <<>>
    /\ saveFailures = 0
    /\ trace = <<>>
    /\ manifest = <<>>
    /\ image_url = None
    /\ tempFile = "absent"
    /\ tempSeen = FALSE
    /\ dlError = ""
    /\ file_path = NoPath
    /\ wallpaperFiles = {}
    /\ wallpaper_path = NoPath
    /\ attempt = 0
    /\ attempts = <<>>
    /\ stageRet = [stage |-> "none", ret |-> "none"]

\* no script of SpecScripts runs
NoScript ==
    /\ script = "none"
    /\ jsonErrCaught = FALSE
    /\ savePath = "absent"
    /\ savePathBefore = "absent"

InitHistory ==
    /\ InitCommon
    /\ NoScript
    /\ pc = "history"
    /\ nasa_id \in NasaIds
    /\ historyFile \in {AbsentFile, JsonFile(<<>>)}
    /\ histBefore = historyFile

\* one call save_wallpaper_history(image_path)
HistoryRecord ==
    /\ pc = "history"
    /\ clock <= MaxRecords
    /\ \E io \in IoOutcomes :
         LET image_path == [id |-> nasa_id, ts |-> clock, ext |-> "jpg"]
             r == save_wallpaper_history(historyFile, image_path, clock, io)
         IN  /\ r.saved \/ saveFailures < MaxSaveFailures
             /\ saveFailures' = IF r.saved THEN saveFailures ELSE saveFailures + 1
             /\ historyFile' = r.file
             /\ recorded' = IF r.saved
                            THEN Append(recorded, saved_entry(image_path, clock))
                            ELSE recorded
             /\ clock' = IF r.readNow THEN clock + 1 ELSE clock
    /\ UNCHANGED <<pc, kdeVars, cycles, histBefore, trace, nasa_id, manifest,
                   image_url, fileVars, scriptVars>>

NextHistory == HistoryRecord

SpecHistory == InitHistory /\ [][NextHistory]_vars

\* C1: while the history file is readable, it holds exactly the last
\* min(n, 50) of the n entries recorded so far, in the order they were recorded
\* (so never more than 50, nothing dropped or reordered up to 50, and beyond
\* 50 the oldest are the ones evicted).
C1_HistoryIsLastFifty ==
    (pc = "history" /\ historyFile.valid) =>
        LET n == Len(recorded)
            m == IF n < HistoryCap THEN n ELSE HistoryCap
        IN  /\ Len(historyFile.data) = m
            /\ m <= HistoryCap
            /\ \A i \in 1..m : historyFile.data[i] = recorded[n - m + i]

\* more than 50 records were saved and the file is readable: eviction happened
C1_Witness ==
    /\ pc = "history"
    /\ historyFile.exists
    /\ historyFile.valid
    /\ Len(recorded) > HistoryCap

\* ----------------------------------------- Spec: main() of src/apiscript.py
\* an entry left in the history file by an earlier run
OldEntry == [path |-> [id |-> "X123", ts |-> 0, ext |-> "jpg"], date |-> 0]

Init ==
    /\ InitCommon
    /\ NoScript
    /\ pc = "main"
    /\ nasa_id = None
    /\ historyFile \in {AbsentFile, JsonFile(<<OldEntry>>)}
    /\ histBefore = historyFile

\* a call of the cycle entry point: its locals are fresh
BeginCycle ==
    /\ cycles' = cycles + 1
    /\ trace' = <<>>
    /\ histBefore' = historyFile
    /\ nasa_id' = None
    /\ manifest' = <<>>
    /\ image_url' = None
    /\ tempSeen' = FALSE
    /\ dlError' = ""
    /\ file_path' = NoPath
    /\ wallpaper_path' = NoPath
    /\ pc' = "search"
    /\ UNCHANGED <<kdeVars, histVars, tempFile, wallpaperFiles, scriptVars>>

\* create_plasma_plugin(): mkdir and two file writes, nothing caught
CreatePlasmaPlugin ==
    /\ pc = "main"
    /\ \E ok \in BOOLEAN : pc' = IF ok THEN "construct" ELSE "crashed"
    /\ UNCHANGED <<kdeVars, cycles, histVars, histBefore, trace, nasa_id, manifest,
                   image_url, fileVars, scriptVars>>

\* init_kde_interface that logs the failure and returns
init_kde_interface_no_exit(plasmaOk) ==
    [sinkOk |-> plasmaOk, pc |-> "schedule"]

\* KDENASAWallpaper.init_kde_interface: get_object and Interface inside try;
\* any exception is logged and followed by sys.exit(1)
init_kde_interface(plasmaOk) ==
    IF plasmaOk
    THEN [sinkOk |-> TRUE, pc |-> "schedule"]
    ELSE [sinkOk |-> FALSE, pc |-> "exited"]

\* KDENASAWallpaper.__init__. Outside init_kde_interface nothing is caught:
\*   mkdir_error    directory.mkdir / os.chmod raises
\*   logging_error  logging.RotatingFileHandler is looked up when the handler
\*                  list is built; the logging package defines that class in
\*                  logging.handlers only, so the lookup raises AttributeError
\*                  unless the running environment binds the name
\*   bus_error      SessionBus() raises
CtorOutcomes == {"mkdir_error", "logging_error", "bus_error", "plasma_error", "ok"}

Construct ==
    /\ pc = "construct"
    /\ \E o \in CtorOutcomes :
         IF o \in {"mkdir_error", "logging_error", "bus_error"}
         THEN pc' = "crashed" /\ sinkOk' = sinkOk
         ELSE LET r == init_kde_interface(o = "ok")
              IN  pc' = r.pc /\ sinkOk' = r.sinkOk
    /\ UNCHANGED <<scheduled, cycles, histVars, histBefore, trace, nasa_id, manifest,
                   image_url, fileVars, scriptVars>>

\* schedule.every(6).hours.do(wallpaper.fetch_and_set_wallpaper)
ScheduleJob ==
    /\ pc = "schedule"
    /\ scheduled' = TRUE
    /\ pc' = "initial"
    /\ UNCHANGED <<sinkOk, cycles, histVars, histBefore, trace, nasa_id, manifest,
                   image_url, fileVars, scriptVars>>

\* main(): the initial wallpaper.fetch_and_set_wallpaper()
InitialCycle ==
    /\ pc = "initial"
    /\ BeginCycle

\* the positions of fetch_and_set_wallpaper between its call and its return
CyclePcs == {"search", "resolve", "download", "dl_get", "dl_write", "dl_move",
             "dl_chmod", "dl_except", "dl_done", "apply"}

\* run_pending driven from a timer thread: the due job is started whether or
\* not the previous call of fetch_and_set_wallpaper has returned
RunPendingInThread ==
    /\ pc \in CyclePcs \cup {"idle"}
    /\ scheduled
    /\ cycles < MaxCycles
    /\ BeginCycle

\* schedule.run_pending() in the while True loop, when the job is due (when it
\* is not, the loop sleeps and nothing changes)
RunPending ==
    /\ pc = "idle"
    /\ scheduled
    /\ cycles < MaxCycles
    /\ BeginCycle

\* fetch_and_set_wallpaper, lines 186-198: search_images and the choice of an
\* item. search_images returns None on any request, status or JSON error.
SearchKinds == {"error", "no_collection", "no_items", "bad_item", "no_id", "ok"}

SearchImages ==
    /\ pc = "search"
    /\ \E kind \in SearchKinds, id \in NasaIds :
         IF kind = "ok"
         THEN \* random.choice(items), an item with a nasa_id
              /\ nasa_id' = id
              /\ trace' = Append(trace, Stage("search", TRUE))
              /\ pc' = "resolve"
         ELSE \* return, or an exception the outer except logs
              /\ nasa_id' = nasa_id
              /\ trace' = Append(trace, Stage("search", FALSE))
              /\ pc' = "idle"
    /\ UNCHANGED <<kdeVars, cycles, histVars, histBefore, manifest, image_url,
                   fileVars, scriptVars>>

\* the for loop of fetch_and_set_wallpaper from asset i on: the first href
\* that, lower-cased, ends with .jpg, .jpeg or .png
RECURSIVE first_image_from(_, _)
first_image_from(m, i) ==
    IF i > Len(m) THEN None
    ELSE IF endswith_image(lower(m[i])) THEN m[i]
    ELSE first_image_from(m, i + 1)

select_image(m) == first_image_from(m, 1)

\* fetch_and_set_wallpaper, lines 201-213: the asset request and the selection.
\* "error": requests.get raises, raise_for_status raises, response.json()
\* raises, or an asset has no href; all end in the outer except.
ResolveAsset ==
    /\ pc = "resolve"
    /\ \E ok \in BOOLEAN, m \in Manifests :
         IF ok
         THEN /\ manifest' = m
              /\ image_url' = select_image(m)
              /\ trace' = Append(trace, Stage("resolve", select_image(m) # None))
              /\ pc' = IF select_image(m) # None THEN "download" ELSE "idle"
         ELSE /\ manifest' = manifest
              /\ image_url' = image_url
              /\ trace' = Append(trace, Stage("resolve", FALSE))
              /\ pc' = "idle"
    /\ UNCHANGED <<kdeVars, cycles, histVars, histBefore, nasa_id, fileVars,
                   scriptVars>>

\* --------------------------------- KDENASAWallpaper.download_wallpaper, by step
\* with tempfile.NamedTemporaryFile(delete=False) as tmp_file
DlCreateTemp ==
    /\ pc = "download"
    /\ \E ok \in BOOLEAN :
         IF ok
         THEN tempFile' = "empty" /\ tempSeen' = TRUE /\ dlError' = "" /\ pc' = "dl_get"
         ELSE tempFile' = tempFile /\ tempSeen' = FALSE /\ dlError' = "tempfile"
              /\ pc' = "dl_except"
    /\ UNCHANGED <<kdeVars, cycles, histVars, histBefore, trace, nasa_id, manifest,
                   image_url, file_path, wallpaperFiles, wallpaper_path, scriptVars>>

\* requests.get(image_url, ...) and response.raise_for_status()
DlGet ==
    /\ pc = "dl_get"
    /\ \E ok \in BOOLEAN :
         IF ok
         THEN dlError' = dlError /\ pc' = "dl_write"
         ELSE dlError' = "http" /\ pc' = "dl_except"
    /\ UNCHANGED <<kdeVars, cycles, histVars, histBefore, trace, nasa_id, manifest,
                   image_url, tempFile, tempSeen, file_path, wallpaperFiles,
                   wallpaper_path, scriptVars>>

\* with open(temp_path, 'wb') as f: f.write(response.content)
\*   open_error: open raises; write_error: write raises part-way
DlWrite ==
    /\ pc = "dl_write"
    /\ \E o \in {"ok", "open_error", "write_error"} :
         /\ tempFile' = CASE o = "ok" -> "complete"
                          [] o = "open_error" -> tempFile
                          [] OTHER -> "partial"
         /\ dlError' = IF o = "ok" THEN dlError ELSE "write"
         /\ pc' = IF o = "ok" THEN "dl_move" ELSE "dl_except"
    /\ UNCHANGED <<kdeVars, cycles, histVars, histBefore, trace, nasa_id, manifest,
                   image_url, tempSeen, file_path, wallpaperFiles, wallpaper_path,
                   scriptVars>>

\* wallpaper_dir with `content` at `path`
put_file(files, path, content) ==
    {f \in files : f.path # path} \cup {[path |-> path, content |-> content]}

\* lines 165-171: the file name from datetime.now() and the url's extension,
\* then shutil.move(temp_path, file_path). shutil.move renames; when the
\* destination is on another filesystem (the temporary directory against
\* ~/Pictures) it copies, then unlinks the source.
\*   rename_error: nothing was written at file_path
\*   copy_error:   the copy stopped part-way, file_path holds what was copied
DlMove ==
    /\ pc = "dl_move"
    /\ \E o \in {"ok", "rename_error", "copy_error"} :
         LET p == [id |-> nasa_id, ts |-> clock,
                   ext |-> lower_ext(split_last(image_url))]
         IN  /\ file_path' = p
             /\ clock' = clock + 1
             /\ wallpaperFiles' =
                    CASE o = "ok" -> put_file(wallpaperFiles, p, tempFile)
                      [] o = "copy_error" -> put_file(wallpaperFiles, p, "partial")
                      [] OTHER -> wallpaperFiles
             /\ tempFile' = IF o = "ok" THEN "absent" ELSE tempFile
             /\ dlError' = IF o = "ok" THEN dlError ELSE "move"
             /\ pc' = IF o = "ok" THEN "dl_chmod" ELSE "dl_except"
    /\ UNCHANGED <<kdeVars, cycles, historyFile, recorded, saveFailures, histBefore,
                   trace, nasa_id, manifest, image_url, tempSeen, wallpaper_path,
                   scriptVars>>

\* os.chmod(file_path, 0o644); return str(file_path)
DlChmod ==
    /\ pc = "dl_chmod"
    /\ \E ok \in BOOLEAN :
         IF ok
         THEN wallpaper_path' = file_path /\ dlError' = dlError /\ pc' = "dl_done"
         ELSE wallpaper_path' = wallpaper_path /\ dlError' = "chmod"
              /\ pc' = "dl_except"
    /\ UNCHANGED <<kdeVars, cycles, histVars, histBefore, trace, nasa_id, manifest,
                   image_url, tempFile, tempSeen, file_path, wallpaperFiles,
                   scriptVars>>

\* an except clause that only logs and returns None
download_except_keep(temp, seen) == temp

\* the except clause of download_wallpaper, on the temporary file:
\* if 'temp_path' in locals(): temp_path.unlink(missing_ok=True)
download_except(temp, seen) == IF seen THEN "absent" ELSE temp

\* except Exception: log, remove the temporary file, return None
DlExcept ==
    /\ pc = "dl_except"
    /\ tempFile' = download_except(tempFile, tempSeen)
    /\ wallpaper_path' = NoPath
    /\ pc' = "dl_done"
    /\ UNCHANGED <<kdeVars, cycles, histVars, histBefore, trace, nasa_id, manifest,
                   image_url, tempSeen, dlError, file_path, wallpaperFiles,
                   scriptVars>>

\* fetch_and_set_wallpaper, lines 216-218: if wallpaper_path: set_wallpaper(...)
AfterDownload ==
    /\ pc = "dl_done"
    /\ trace' = Append(trace, Stage("download", wallpaper_path # NoPath))
    /\ pc' = IF wallpaper_path # NoPath THEN "apply" ELSE "idle"
    /\ UNCHANGED <<kdeVars, cycles, histVars, histBefore, nasa_id, manifest,
                   image_url, fileVars, scriptVars>>

\* ------------------------------------------ KDENASAWallpaper.set_wallpaper
NotSaved(file) == [file |-> file, saved |-> FALSE, readNow |-> FALSE]

\* set_wallpaper with the history saved before the script is evaluated
set_wallpaper_saves_first(file, image_path, now, applied, io) ==
    [applied |-> applied, recordCalled |-> TRUE,
     r |-> save_wallpaper_history(file, image_path, now, io)]

\* set_wallpaper: evaluateScript, then save_wallpaper_history, inside one try;
\* when evaluateScript raises, the except clause logs and the save is skipped
set_wallpaper(file, image_path, now, applied, io) ==
    IF applied
    THEN [applied |-> TRUE, recordCalled |-> TRUE,
          r |-> save_wallpaper_history(file, image_path, now, io)]
    ELSE [applied |-> FALSE, recordCalled |-> FALSE, r |-> NotSaved(file)]

\* self.set_wallpaper(wallpaper_path): the last statement of the cycle.
\* evaluateScript raises when the shell refuses the call, and the attribute
\* plasma_interface is missing when the interface was never obtained.
SetWallpaper ==
    /\ pc = "apply"
    /\ \E scriptOk \in BOOLEAN, io \in IoOutcomes :
         LET s == set_wallpaper(historyFile, wallpaper_path, clock,
                                sinkOk /\ scriptOk, io)
         IN  /\ historyFile' = s.r.file
             /\ recorded' = IF s.r.saved
                            THEN Append(recorded, saved_entry(wallpaper_path, clock))
                            ELSE recorded
             /\ saveFailures' = saveFailures
             /\ clock' = IF s.r.readNow THEN clock + 1 ELSE clock
             /\ trace' = trace \o <<Stage("apply", s.applied)>>
                               \o (IF s.recordCalled
                                   THEN <<Stage("record", s.r.saved)>>
                                   ELSE <<>>)
    /\ pc' = "idle"
    /\ UNCHANGED <<kdeVars, cycles, histBefore, nasa_id, manifest, image_url,
                   fileVars, scriptVars>>

Next ==
    \/ CreatePlasmaPlugin
    \/ Construct
    \/ ScheduleJob
    \/ InitialCycle
    \/ RunPending
    \/ SearchImages
    \/ ResolveAsset
    \/ DlCreateTemp
    \/ DlGet
    \/ DlWrite
    \/ DlMove
    \/ DlChmod
    \/ DlExcept
    \/ AfterDownload
    \/ SetWallpaper

Spec == Init /\ [][Next]_vars

\* ------------------------- SpecScripts: the stage functions with retries=3
\* what one request of a stage function meets:
\*   neterr   requests.get raises a RequestException
\*   status   a response whose status_code is not 200
\*   badjson  status 200, response.json() raises
\*   noshape  status 200, JSON without collection/items/data/nasa_id/href
\*            (KeyError, TypeError or IndexError)
\*   empty    status 200, items == []
\*   ok       status 200 and a well-formed body
JsonOutcomes == {"neterr", "status", "badjson", "noshape", "empty", "ok"}
DownloadOutcomes == {"neterr", "status", "open_error", "write_error", "ok"}
Transient == {"neterr", "status"}
ParseErrors == {"badjson", "noshape"}

\* while attempt <= retries
loop_continues_off_by_one(att) == att <= retries

\* while attempt < retries
loop_continues(att) == att < retries

\* attempt += 1; time.sleep(1); back to the loop test; return None after it
next_pass(att) ==
    [attempt |-> att + 1,
     ret |-> IF loop_continues(att + 1) THEN "running" ELSE "None"]

\* one pass of the loop of search_nasa_images. response.json() raises
\* ValueError, which `except requests.exceptions.RequestException` lets through,
\* or (requests 2.27 and later) requests.exceptions.JSONDecodeError, which is a
\* RequestException and is caught: jsonCaught says which library runs.
search_nasa_images(att, o, jsonCaught) ==
    CASE o = "ok" -> [attempt |-> att, ret |-> "value"]
      [] o = "empty" -> [attempt |-> att, ret |-> "None"]
      [] o = "noshape" -> [attempt |-> att, ret |-> "raised"]
      [] o = "badjson" /\ ~jsonCaught -> [attempt |-> att, ret |-> "raised"]
      [] OTHER -> next_pass(att)

\* one pass of the loop of get_asset_url
get_asset_url(att, o, jsonCaught) ==
    CASE o = "ok" -> [attempt |-> att, ret |-> "value"]
      [] o = "empty" -> [attempt |-> att, ret |-> "None"]
      [] o = "noshape" -> [attempt |-> att, ret |-> "raised"]
      [] o = "badjson" /\ ~jsonCaught -> [attempt |-> att, ret |-> "raised"]
      [] OTHER -> next_pass(att)

\* return items[-1]['href']
last_href(m) == m[Len(m)]

\* with open(save_path, 'wb') as file: file.write(response.content)
\* open truncates the file before anything is written
write_save_path(content, o) ==
    CASE o = "ok" -> "complete"
      [] o = "write_error" -> "partial"
      [] OTHER -> content

\* one pass of the loop of download_image; the function returns None on
\* success and on failure alike, and OSError is not caught
download_image(att, o) ==
    CASE o = "ok" -> [attempt |-> att, ret |-> "value"]
      [] o \in {"open_error", "write_error"} -> [attempt |-> att, ret |-> "raised"]
      [] OTHER -> next_pass(att)

InitScripts ==
    /\ InitCommon
    /\ script \in {"plugin", "updater"}
    /\ jsonErrCaught \in (IF script = "plugin" THEN BOOLEAN ELSE {FALSE})
    /\ pc = IF script = "plugin" THEN "p_start" ELSE "u_search"
    /\ nasa_id = None
    /\ historyFile = AbsentFile
    /\ histBefore = historyFile
    /\ savePath \in {"absent", "old"}
    /\ savePathBefore = savePath

CallStage(name) ==
    /\ attempt' = 0
    /\ attempts' = <<>>
    /\ stageRet' = [stage |-> name, ret |-> "running"]

\* where a stage function's pass leaves update_wallpaper
AfterPass(r, here, after) ==
    CASE r.ret = "running" -> here
      [] r.ret = "raised" -> "crashed"
      [] OTHER -> after

\* __main__ of apiscript.py: plugin.update_wallpaper(); its first statement
\* calls search_nasa_images(self.query)
UpdateWallpaper ==
    /\ pc = "p_start"
    /\ cycles' = cycles + 1
    /\ CallStage("search")
    /\ pc' = "p_search"
    /\ UNCHANGED <<kdeVars, histVars, histBefore, trace, nasa_id, manifest, image_url,
                   fileVars, script, jsonErrCaught, savePath, savePathBefore>>

SearchAttempt ==
    /\ pc = "p_search"
    /\ \E o \in JsonOutcomes, id \in NasaIds :
         LET r == search_nasa_images(attempt, o, jsonErrCaught)
         IN  /\ attempt' = r.attempt
             /\ attempts' = Append(attempts, o)
             /\ stageRet' = [stageRet EXCEPT !.ret = r.ret]
             /\ nasa_id' = IF r.ret = "value" THEN id ELSE None
             /\ pc' = AfterPass(r, "p_search", "p_after_search")
    /\ UNCHANGED <<kdeVars, cycles, histVars, histBefore, trace, manifest, image_url,
                   fileVars, script, jsonErrCaught, savePath, savePathBefore>>

\* if nasa_id: image_url = get_asset_url(nasa_id)
AfterSearch ==
    /\ pc = "p_after_search"
    /\ trace' = Append(trace, Stage("search", nasa_id # None))
    /\ IF nasa_id # None
       THEN CallStage("resolve") /\ pc' = "p_resolve"
       ELSE UNCHANGED <<attempt, attempts, stageRet>> /\ pc' = "p_done"
    /\ UNCHANGED <<kdeVars, cycles, histVars, histBefore, nasa_id, manifest, image_url,
                   fileVars, script, jsonErrCaught, savePath, savePathBefore>>

AssetAttempt ==
    /\ pc = "p_resolve"
    /\ \E o \in JsonOutcomes \ {"empty"}, m \in Manifests :
         LET oo == IF o = "ok" /\ m = <<>> THEN "empty" ELSE o
             r == get_asset_url(attempt, oo, jsonErrCaught)
         IN  /\ attempt' = r.attempt
             /\ attempts' = Append(attempts, oo)
             /\ stageRet' = [stageRet EXCEPT !.ret = r.ret]
             /\ manifest' = IF o = "ok" THEN m ELSE manifest
             /\ image_url' = IF r.ret = "value" THEN last_href(m) ELSE None
             /\ pc' = AfterPass(r, "p_resolve", "p_after_resolve")
    /\ UNCHANGED <<kdeVars, cycles, histVars, histBefore, trace, nasa_id, fileVars,
                   script, jsonErrCaught, savePath, savePathBefore>>

\* if image_url: download_image(image_url, SAVE_PATH)
AfterAsset ==
    /\ pc = "p_after_resolve"
    /\ trace' = Append(trace, Stage("resolve", image_url # None))
    /\ IF image_url # None
       THEN CallStage("download") /\ pc' = "p_download"
       ELSE UNCHANGED <<attempt, attempts, stageRet>> /\ pc' = "p_done"
    /\ savePathBefore' = savePath
    /\ UNCHANGED <<kdeVars, cycles, histVars, histBefore, nasa_id, manifest, image_url,
                   fileVars, script, jsonErrCaught, savePath>>

DownloadAttempt ==
    /\ pc = "p_download"
    /\ \E o \in DownloadOutcomes :
         LET r == download_image(attempt, o)
         IN  /\ attempt' = r.attempt
             /\ attempts' = Append(attempts, o)
             /\ stageRet' = [stageRet EXCEPT !.ret = r.ret]
             /\ savePath' = write_save_path(savePath, o)
             /\ pc' = AfterPass(r, "p_download", "p_after_download")
    /\ UNCHANGED <<kdeVars, cycles, histVars, histBefore, trace, nasa_id, manifest,
                   image_url, fileVars, script, jsonErrCaught, savePathBefore>>

\* self.set_wallpaper(SAVE_PATH), the statement after download_image(...):
\* qdbus or dbus-send is run and its result is not looked at; with neither
\* installed a message is printed
PluginSetWallpaper ==
    /\ pc = "p_after_download"
    /\ \E applied \in BOOLEAN :
         trace' = trace \o <<Stage("download", stageRet.ret = "value"),
                             Stage("apply", applied)>>
    /\ pc' = "p_done"
    /\ UNCHANGED <<kdeVars, cycles, histVars, histBefore, nasa_id, manifest,
                   image_url, fileVars, scriptVars>>

\* ------------------------- src/nasa_wallpaper_updater.py: the one-shot script
\* search_nasa_images / get_asset_url of the updater: one request, no try
updater_json_call(o) ==
    CASE o = "ok" -> "value"
      [] o \in {"status", "empty"} -> "None"
      [] OTHER -> "raised"

\* download_image of the updater: one request, no try
updater_download_image(o) ==
    CASE o \in {"ok", "status"} -> "None"
      [] OTHER -> "raised"

\* nasa_id = search_nasa_images(query); if nasa_id:
UMainSearch ==
    /\ pc = "u_search"
    /\ cycles' = cycles + 1
    /\ \E o \in JsonOutcomes, id \in NasaIds :
         LET ret == updater_json_call(o)
         IN  /\ attempts' = <<o>>
             /\ stageRet' = [stage |-> "search", ret |-> ret]
             /\ nasa_id' = IF ret = "value" THEN id ELSE None
             /\ trace' = Append(trace, Stage("search", ret = "value"))
             /\ pc' = CASE ret = "value" -> "u_resolve"
                        [] ret = "raised" -> "crashed"
                        [] OTHER -> "u_done"
    /\ UNCHANGED <<kdeVars, histVars, histBefore, manifest, image_url, fileVars,
                   script, jsonErrCaught, attempt, savePath, savePathBefore>>

\* image_url = get_asset_url(nasa_id); if image_url:
UMainResolve ==
    /\ pc = "u_resolve"
    /\ \E o \in JsonOutcomes \ {"empty"}, m \in Manifests :
         LET oo == IF o = "ok" /\ m = <<>> THEN "empty" ELSE o
             ret == updater_json_call(oo)
         IN  /\ attempts' = <<oo>>
             /\ stageRet' = [stage |-> "resolve", ret |-> ret]
             /\ manifest' = IF o = "ok" THEN m ELSE manifest
             /\ image_url' = IF ret = "value" THEN last_href(m) ELSE None
             /\ trace' = Append(trace, Stage("resolve", ret = "value"))
             /\ pc' = CASE ret = "value" -> "u_download"
                        [] ret = "raised" -> "crashed"
                        [] OTHER -> "u_done"
    /\ savePathBefore' = savePath
    /\ UNCHANGED <<kdeVars, cycles, histVars, histBefore, nasa_id, fileVars, script,
                   jsonErrCaught, attempt, savePath>>

\* download_image(image_url, SAVE_PATH)
UMainDownload ==
    /\ pc = "u_download"
    /\ \E o \in DownloadOutcomes :
         LET ret == updater_download_image(o)
         IN  /\ attempts' = <<o>>
             /\ stageRet' = [stage |-> "download", ret |-> ret]
             /\ savePath' = write_save_path(savePath, o)
             /\ trace' = Append(trace, Stage("download", o = "ok"))
             /\ pc' = IF ret = "raised" THEN "crashed" ELSE "u_apply"
    /\ UNCHANGED <<kdeVars, cycles, histVars, histBefore, nasa_id, manifest,
                   image_url, fileVars, script, jsonErrCaught, attempt,
                   savePathBefore>>

\* set_wallpaper(SAVE_PATH): subprocess.run(["qdbus", ...]); a missing qdbus
\* raises FileNotFoundError, a failing qdbus is not noticed
UMainApply ==
    /\ pc = "u_apply"
    /\ \E o \in {"applied", "failed", "no_qdbus"} :
         /\ trace' = Append(trace, Stage("apply", o = "applied"))
         /\ pc' = IF o = "no_qdbus" THEN "crashed" ELSE "u_done"
    /\ UNCHANGED <<kdeVars, cycles, histVars, histBefore, nasa_id, manifest,
                   image_url, fileVars, scriptVars>>

NextScripts ==
    \/ UpdateWallpaper
    \/ SearchAttempt
    \/ AfterSearch
    \/ AssetAttempt
    \/ AfterAsset
    \/ DownloadAttempt
    \/ PluginSetWallpaper
    \/ UMainSearch
    \/ UMainResolve
    \/ UMainDownload
    \/ UMainApply

SpecScripts == InitScripts /\ [][NextScripts]_vars

\* ------------------------------------------------------------------ claims
ApplyFailedInCycle == \E i \in 1..Len(trace) : trace[i] = Stage("apply", FALSE)
RecordCalledInCycle == \E i \in 1..Len(trace) : trace[i].stage = "record"

\* C2: in a cycle whose apply step failed, save_wallpaper_history is not called
\* and the history file is what it was when the cycle began; and every call of
\* save_wallpaper_history comes right after an apply step that succeeded.
C2_FailedApplyRecordsNothing ==
    /\ ApplyFailedInCycle => (~RecordCalledInCycle /\ historyFile = histBefore)
    /\ \A i \in 1..Len(trace) :
         trace[i].stage = "record" => (i > 1 /\ trace[i - 1] = Stage("apply", TRUE))

\* evaluateScript raised in a later cycle, with the interface obtained at
\* startup and a history file that already holds entries
C2_Witness ==
    /\ pc = "idle"
    /\ sinkOk
    /\ ApplyFailedInCycle
    /\ histBefore.exists
    /\ Len(histBefore.data) > 0

AllTransient(log) == \A i \in 1..Len(log) : log[i] \in Transient
Front(log) == SubSeq(log, 1, Len(log) - 1)
StageCalled == script = "plugin" /\ stageRet.stage # "none"

C4_NoPartialFileAtDestination ==
    /\ savePath \in {savePathBefore, "complete"}
    /\ \A f \in wallpaperFiles : f.content = "complete"

Rank(stage) ==
    CASE stage = "search" -> 1
      [] stage = "resolve" -> 2
      [] stage = "download" -> 3
      [] stage = "apply" -> 4
      [] OTHER -> 5

\* C5: within a cycle the stages are entered in the order search, resolve,
\* download, apply, record, each only after the one before it succeeded.
C5_StageOnlyAfterSuccess ==
    \A i \in 2..Len(trace) :
        /\ trace[i - 1].ok
        /\ Rank(trace[i].stage) = Rank(trace[i - 1].stage) + 1

\* C6: the href taken from a manifest is the first one, in manifest order,
\* whose extension is jpg, jpeg or png whatever its case; with no such href
\* nothing is selected and the cycle goes no further.
C6_SelectsFirstImageHref ==
    (stageRet.stage = "resolve" /\ stageRet.ret \in {"value", "None"}) =>
        /\ image_url = select_image(manifest)
        /\ select_image(manifest) = None =>
              \A i \in 1..Len(trace) : trace[i].stage \in {"search", "resolve"}

\* C7: inside a stage call no attempt follows a 200 response whose body is not
\* JSON or lacks the expected fields.
C7_NoRetryAfterParseError ==
    script = "plugin" =>
        \A i \in 1..(Len(attempts) - 1) : attempts[i] \notin ParseErrors

\* C8: no failure of a stage ends the process: update_wallpaper returns.
C8_StageFailureNeverEndsProcess ==
    ~(script = "plugin" /\ pc = "crashed")

\* C9: when download_wallpaper returns after a failure that came once the
\* temporary file existed, the temporary file is gone and the result is None.
C9_FailedDownloadRemovesTemp ==
    (pc = "dl_done" /\ tempSeen /\ dlError # "") =>
        (tempFile = "absent" /\ wallpaper_path = NoPath)

\* the write to the temporary file failed part-way and the call has returned
C9_Witness ==
    /\ pc = "dl_done"
    /\ tempSeen
    /\ dlError = "write"
    /\ tempFile = "absent"

\* C10: as long as the PlasmaShell interface has not been obtained nothing is
\* scheduled and no cycle runs: no stage, no file written, history untouched;
\* when obtaining it fails the process is left at the exit.
C10_NoCycleWithoutSink ==
    ~sinkOk =>
        /\ pc \in {"main", "construct", "exited", "crashed"}
        /\ ~scheduled
        /\ cycles = 0
        /\ trace = <<>>
        /\ wallpaperFiles = {}
        /\ tempFile = "absent"
        /\ historyFile = histBefore

\* init_kde_interface failed and sys.exit(1) ended the process
C10_Witness ==
    /\ pc = "exited"
    /\ ~sinkOk
    /\ cycles = 0

\* C11: under main() cycles never overlap: a call of fetch_and_set_wallpaper
\* begins only from the initial call or from the idle loop, that is after the
\* previous call has returned, and never while a cycle is between search and
\* apply; and the history file is written only by the cycle in flight, in its
\* apply step, which ends that cycle.
C11_CyclesNeverOverlap ==
    [][ /\ (cycles' # cycles) =>
             /\ pc \in {"initial", "idle"}
             /\ pc \notin CyclePcs
             /\ cycles' = cycles + 1
             /\ pc' = "search"
        /\ (historyFile' # historyFile) => (pc = "apply" /\ pc' = "idle")
      ]_vars

\* the scheduled cycle, begun by run_pending after the initial cycle returned,
\* is at its apply step
C11_Witness ==
    /\ scheduled
    /\ cycles = 2
    /\ pc = "apply"

====
